---- MODULE Spec2Model ----
(***************************************************************************)
(* Model of ambiente.py: the memoized loader load_environmental_data       *)
(* (station metadata + yearly measurement files -> one joined table) and   *)
(* the three derived views the script renders from it.                     *)
(*                                                                         *)
(* Text that the code converts (dates, numeric text, station ids) is a     *)
(* sequence of one-character strings, so that parsing and formatting are   *)
(* computed.  Numbers with a fractional part are kept in tenths.           *)
(***************************************************************************)
EXTENDS Integers, Sequences, FiniteSets, TLC

VARIABLES
    metaFile,       \* qaria_stazione.geojson on disk
    yearFiles,      \* <year>_stazioni.json on disk, one entry per year of the loop
    cache,          \* the st.cache_data entry of load_environmental_data()
    df_final,       \* module-level df_final of the current script run
    pc,             \* position of the script run: start / loaded / rendered / failed
    error,          \* exception that aborted the current script run ("" = none)
    reads,          \* files opened by the latest load_environmental_data() call
    synced,         \* history: the latest call ran the body on the files as they are now
    selected_year, selected_gas, gas_comp, staz_focus, gas_focus,   \* widget values
    monthly_trend, ranking, monthly_focus,                          \* derived views
    trendView, rankView, focusView                                  \* what was drawn

loaderVars == <<metaFile, yearFiles, cache, df_final, pc, error, reads, synced>>
uiVars == <<selected_year, selected_gas, gas_comp, staz_focus, gas_focus,
            monthly_trend, ranking, monthly_focus, trendView, rankView, focusView>>
vars == <<loaderVars, uiVars>>

----------------------------------------------------------------------------
(* Bounds of the checked instances *)

MaxStations == 2    \* features in the metadata file
MaxRecords == 2     \* measurement records on disk, over all yearly files

----------------------------------------------------------------------------
(* Values *)

FirstYear == 2016
LastYear == 2025
Years == FirstYear..LastYear

JInt(n) == [t |-> "int", v |-> n]             \* JSON integer
JFloat(tenths) == [t |-> "float", v |-> tenths]   \* JSON number with a fraction
JStr(s) == [t |-> "str", v |-> s]             \* JSON string, as characters
Txt(s) == [t |-> "txt", v |-> s]              \* a label the code never converts
Num(tenths) == [t |-> "num", v |-> tenths]    \* float64 cell
Coord(p) == [t |-> "coord", v |-> p]
NaN == [t |-> "nan", v |-> 0]                 \* NaN / NaT / None in a column
Missing == [t |-> "missing", v |-> 0]         \* key absent from a JSON object
None == [t |-> "none", v |-> 0]               \* selectbox over no options

Digits == <<"0", "1", "2", "3", "4", "5", "6", "7", "8", "9">>
IsDigit(c) == \E i \in 1..10 : Digits[i] = c
DigitVal(c) == (CHOOSE i \in 1..10 : Digits[i] = c) - 1

RECURSIVE IntToStr(_)
IntToStr(n) ==
    IF n < 10 THEN <<Digits[n + 1]>>
    ELSE IntToStr(n \div 10) \o <<Digits[(n % 10) + 1]>>

FloatToStr(tenths) == IntToStr(tenths \div 10) \o <<".">> \o <<Digits[(tenths % 10) + 1]>>

RECURSIVE StrToNat(_)
StrToNat(s) ==
    IF s = <<>> THEN 0
    ELSE 10 * StrToNat(SubSeq(s, 1, Len(s) - 1)) + DigitVal(s[Len(s)])

AllDigits(s) == s # <<>> /\ \A i \in 1..Len(s) : IsDigit(s[i])

----------------------------------------------------------------------------
(* Files *)

Absent == [st |-> "absent", body |-> <<>>]
Malformed == [st |-> "malformed", body |-> <<>>]
Json(body) == [st |-> "json", body |-> body]

path_geo == 0                    \* reads holds path_geo and the years opened
file_p(year) == year

----------------------------------------------------------------------------
(* Type normalization *)

\* pd.to_datetime on one ISO date string: [ok, y, m, d]
ParseDate(s) ==
    IF /\ Len(s) = 10
       /\ s[5] = "-" /\ s[8] = "-"
       /\ \A i \in {1, 2, 3, 4, 6, 7, 9, 10} : IsDigit(s[i])
       /\ StrToNat(SubSeq(s, 6, 7)) \in 1..12
       /\ StrToNat(SubSeq(s, 9, 10)) \in 1..31
    THEN [ok |-> TRUE, y |-> StrToNat(SubSeq(s, 1, 4)),
          m |-> StrToNat(SubSeq(s, 6, 7)), d |-> StrToNat(SubSeq(s, 9, 10))]
    ELSE [ok |-> FALSE, y |-> 0, m |-> 0, d |-> 0]

\* mutant of ToNumeric: text that is no number becomes 0 instead of NaN
ToNumericFillZero(x) ==
    CASE x.t = "int" -> Num(10 * x.v)
      [] x.t = "float" -> Num(x.v)
      [] x.t = "str" ->
            IF AllDigits(x.v) THEN Num(10 * StrToNat(x.v))
            ELSE IF /\ Len(x.v) >= 3
                    /\ x.v[Len(x.v) - 1] = "."
                    /\ AllDigits(SubSeq(x.v, 1, Len(x.v) - 2))
                    /\ IsDigit(x.v[Len(x.v)])
                 THEN Num(10 * StrToNat(SubSeq(x.v, 1, Len(x.v) - 2)) + DigitVal(x.v[Len(x.v)]))
                 ELSE Num(0)
      [] OTHER -> Num(0)

\* pd.to_numeric(..., errors='coerce') on one cell
ToNumeric(x) ==
    CASE x.t = "int" -> Num(10 * x.v)
      [] x.t = "float" -> Num(x.v)
      [] x.t = "str" ->
            IF AllDigits(x.v) THEN Num(10 * StrToNat(x.v))
            ELSE IF /\ Len(x.v) >= 3
                    /\ x.v[Len(x.v) - 1] = "."
                    /\ AllDigits(SubSeq(x.v, 1, Len(x.v) - 2))
                    /\ IsDigit(x.v[Len(x.v)])
                 THEN Num(10 * StrToNat(SubSeq(x.v, 1, Len(x.v) - 2)) + DigitVal(x.v[Len(x.v)]))
                 ELSE NaN
      [] OTHER -> NaN

\* dtype pandas infers for a column built from JSON scalars
ColumnDtype(col) ==
    IF \E i \in DOMAIN col : col[i].t = "str" THEN "object"
    ELSE IF \E i \in DOMAIN col : col[i].t = "float" THEN "float64"
    ELSE "int64"

\* str() of one Python scalar
PyStr(x) ==
    CASE x.t = "int" -> IntToStr(x.v)
      [] x.t = "float" -> FloatToStr(x.v)
      [] x.t = "str" -> x.v

\* Series.astype(str): every cell formatted from the column's dtype
AsTypeStr(col) ==
    LET dt == ColumnDtype(col)
    IN  [i \in DOMAIN col |->
            IF dt = "object" THEN JStr(PyStr(col[i]))
            ELSE IF dt = "float64"
                 THEN JStr(FloatToStr(IF col[i].t = "int" THEN 10 * col[i].v ELSE col[i].v))
                 ELSE JStr(IntToStr(col[i].v))]

----------------------------------------------------------------------------
(* load_environmental_data: the body *)

Raise(kind, opened) == [ok |-> FALSE, err |-> kind, rows |-> <<>>, reads |-> opened]
Return(rows, opened) == [ok |-> TRUE, err |-> "", rows |-> rows, reads |-> opened]

\* lines 38-40: subscripting a feature that lacks a key raises KeyError
LacksKey(features) ==
    \E i \in DOMAIN features :
        \/ features[i].id_amat = Missing
        \/ features[i].nome = Missing
        \/ features[i].coordinates = Missing

\* lines 36-42, for features that carry the three keys
stations_list(features) ==
    [i \in DOMAIN features |->
        [id |-> features[i].id_amat, nome |-> features[i].nome,
         coord |-> features[i].coordinates]]

\* lines 43 and 57: df_meta with id cast to str
df_meta(stations) ==
    LET ids == AsTypeStr([i \in DOMAIN stations |-> stations[i].id])
    IN  [i \in DOMAIN stations |-> [stations[i] EXCEPT !.id = ids[i]]]

PresentYears(files) == {y \in Years : files[y].st # "absent"}
MalformedYears(files) == {y \in Years : files[y].st = "malformed"}

\* mutant of all_records: a yearly file that does not parse is skipped
RECURSIVE all_recordsSkipMalformed(_, _)
all_recordsSkipMalformed(files, year) ==
    IF year > LastYear THEN <<>>
    ELSE (IF files[year].st = "json" THEN files[year].body ELSE <<>>)
         \o all_recordsSkipMalformed(files, year + 1)

\* lines 45-50: the records of the present files from `year` on, in year order;
\* <<Malformed>> as soon as a present file does not parse
RECURSIVE all_records(_, _)
all_records(files, year) ==
    IF year > LastYear THEN <<>>
    ELSE IF files[year].st = "malformed" THEN <<Malformed>>
    ELSE LET rest == all_records(files, year + 1)
         IN  IF rest = <<Malformed>> THEN rest
             ELSE (IF files[year].st = "json" THEN files[year].body ELSE <<>>) \o rest

\* lines 51-55 and 58: df_main with parsed date, numeric valore, anno, mese, str key
df_main(records) ==
    LET keys == AsTypeStr([i \in DOMAIN records |-> records[i].stazione_id])
    IN  [i \in DOMAIN records |->
            LET d == ParseDate(records[i].data)
            IN  [stazione_id |-> keys[i],
                 inquinante |-> records[i].inquinante,
                 data |-> [t |-> "date", v |-> <<d.y, d.m, d.d>>],
                 valore |-> ToNumeric(records[i].valore),
                 anno |-> d.y,
                 mese |-> d.m]]

Joined(l, r) ==
    [stazione_id |-> l.stazione_id, inquinante |-> l.inquinante, data |-> l.data,
     valore |-> l.valore, anno |-> l.anno, mese |-> l.mese,
     id |-> r.id, nome |-> r.nome, coord |-> r.coord]

NullStation == [id |-> NaN, nome |-> NaN, coord |-> NaN]

\* line 59: pd.merge(left, right, left_on='stazione_id', right_on='id', how='left')
RECURSIVE Merge(_, _)
Merge(left, right) ==
    IF left = <<>> THEN <<>>
    ELSE LET l == Head(left)
             hits == SelectSeq(right, LAMBDA r : r.id = l.stazione_id)
         IN  (IF hits = <<>> THEN <<Joined(l, NullStation)>>
              ELSE [i \in DOMAIN hits |-> Joined(l, hits[i])])
             \o Merge(Tail(left), right)

\* lines 31-59
load_environmental_data(meta, files) ==
    IF meta.st = "absent" THEN Raise("FileNotFoundError", {})
    ELSE IF meta.st = "malformed" THEN Raise("JSONDecodeError", {path_geo})
    ELSE IF LacksKey(meta.body) THEN Raise("KeyError", {path_geo})
    ELSE
    LET stations == stations_list(meta.body)
        records == all_records(files, FirstYear)
        opened == {path_geo} \cup
                  {file_p(y) : y \in {p \in PresentYears(files) :
                        \A m \in MalformedYears(files) : p <= m}}
    IN  IF records = <<Malformed>> THEN Raise("JSONDecodeError", opened)
        ELSE IF records = <<>> THEN Raise("KeyError", opened)
        ELSE IF \E i \in DOMAIN records : ~ParseDate(records[i].data).ok
             THEN Raise("DateParseError", opened)
        ELSE IF stations = <<>> THEN Raise("KeyError", opened)
        ELSE Return(Merge(df_main(records), df_meta(stations)), opened)

----------------------------------------------------------------------------
(* Derived views, lines 101-145 *)

Alphabet == <<"NO2", "O3", "Via A", "Via B", "Via C">>

\* sorted(...) of a set of labels
Sorted(S) == SelectSeq([i \in DOMAIN Alphabet |-> Txt(Alphabet[i])], LAMBDA x : x \in S)

\* Series == value, elementwise: NaN and None equal nothing
Eq(a, b) == a # NaN /\ b # NaN /\ a # None /\ b # None /\ a = b

\* Series.unique() of the two label columns
UniqueGas(rows) == {rows[i].inquinante : i \in DOMAIN rows}
UniqueNome(rows) == {rows[i].nome : i \in DOMAIN rows}

RECURSIVE SumTenths(_)
SumTenths(cells) ==
    IF cells = <<>> THEN 0
    ELSE (IF Head(cells) = NaN THEN 0 ELSE Head(cells).v) + SumTenths(Tail(cells))

\* Series.mean(): NaN cells are skipped; no cell left gives NaN
Mean(cells) ==
    LET valid == SelectSeq(cells, LAMBDA c : c # NaN)
    IN  IF valid = <<>> THEN NaN
        ELSE [t |-> "mean", v |-> <<SumTenths(valid), Len(valid)>>]

Valori(rows) == [i \in DOMAIN rows |-> rows[i].valore]

\* rows.groupby('mese')['valore'].mean().reset_index(): one entry per month, ascending
GroupByMese(rows) ==
    LET months == SelectSeq([m \in 1..12 |-> m],
                            LAMBDA m : \E i \in DOMAIN rows : rows[i].mese = m)
    IN  [k \in DOMAIN months |->
            [mese |-> months[k],
             valore |-> Mean(Valori(SelectSeq(rows, LAMBDA r : r.mese = months[k])))]]

\* rows.groupby('nome')['valore'].mean(): one entry per name, rows without a name dropped
GroupByNome(rows) ==
    LET names == Sorted(UniqueNome(rows) \ {NaN})
    IN  [k \in DOMAIN names |->
            [nome |-> names[k],
             valore |-> Mean(Valori(SelectSeq(rows, LAMBDA r : r.nome = names[k])))]]

\* a.valore > b.valore for two means (NaN is greater than nothing)
Greater(a, b) ==
    a.valore # NaN /\ b.valore # NaN /\ a.valore.v[1] * b.valore.v[2] > b.valore.v[1] * a.valore.v[2]

\* sort_values(ascending=False): descending, NaN last, equal values in their order
RECURSIVE SortDescending(_)
SortDescending(entries) ==
    IF entries = <<>> THEN <<>>
    ELSE LET first == CHOOSE i \in DOMAIN entries :
                        /\ \A j \in DOMAIN entries :
                              ~Greater(entries[j], entries[i])
                              /\ (entries[i].valore = NaN => entries[j].valore = NaN)
                        /\ \A j \in 1..(i - 1) :
                              Greater(entries[i], entries[j])
                              \/ (entries[j].valore = NaN /\ entries[i].valore # NaN)
             rest == [k \in 1..(Len(entries) - 1) |->
                        IF k < first THEN entries[k] ELSE entries[k + 1]]
         IN  <<entries[first]>> \o SortDescending(rest)

mask_year(df, year) == SelectSeq(df, LAMBDA r : r.anno = year)
available_gas(df, year) == Sorted(UniqueGas(mask_year(df, year)))

\* st.selectbox: any of the options, None when there is none
Options(seq) == IF seq = <<>> THEN {None} ELSE {seq[i] : i \in DOMAIN seq}

\* line 107
monthly_trendOf(df, year, gas) ==
    GroupByMese(SelectSeq(mask_year(df, year), LAMBDA r : Eq(r.inquinante, gas)))

\* line 125
rankingOf(df, gas) ==
    SortDescending(GroupByNome(SelectSeq(df, LAMBDA r : Eq(r.inquinante, gas))))

\* line 134: sorted() of names raises TypeError when NaN stands among strings
NomeSortable(df) == NaN \notin UniqueNome(df) \/ UniqueNome(df) = {NaN}
NomeOptions(df) == IF UniqueNome(df) = {NaN} THEN {NaN}
                   ELSE Options(Sorted(UniqueNome(df)))

\* line 136
GasOptions(df, staz) ==
    Options(Sorted(UniqueGas(SelectSeq(df, LAMBDA r : Eq(r.nome, staz)))))

\* line 137
data_focus(df, staz, gas, year) ==
    SelectSeq(df, LAMBDA r : Eq(r.nome, staz) /\ Eq(r.inquinante, gas) /\ r.anno = year)

\* lines 139-145
FocusView(focus) == IF focus # <<>> THEN "chart" ELSE "warning"

----------------------------------------------------------------------------
(* The files the checked instances are drawn from *)

S12 == <<"1", "2">>
D_2020_03_15 == <<"2", "0", "2", "0", "-", "0", "3", "-", "1", "5">>
D_2025_01_10 == <<"2", "0", "2", "5", "-", "0", "1", "-", "1", "0">>
D_bad == <<"n", "/", "d">>
V_42_5 == <<"4", "2", ".", "5">>
V_abc == <<"a", "b", "c">>
V_nd == <<"n", "/", "d">>

Measurement(sid, gas, date, value) ==
    [stazione_id |-> sid, inquinante |-> Txt(gas), data |-> date, valore |-> value]

RecordPool ==
    { Measurement(JStr(S12), "NO2", D_2020_03_15, JStr(V_42_5)),
      Measurement(JInt(12), "NO2", D_2020_03_15, JStr(V_abc)),
      Measurement(JFloat(120), "O3", D_2025_01_10, JInt(40)),
      Measurement(JStr(S12), "NO2", D_bad, JInt(10)),
      Measurement(JInt(7), "NO2", D_2020_03_15, JStr(V_nd)) }

Feature(id, nome, coordinates) == [id_amat |-> id, nome |-> nome, coordinates |-> coordinates]

FeaturePool ==
    { Feature(JInt(12), Txt("Via A"), Coord(<<919, 4546>>)),
      Feature(JStr(S12), Txt("Via B"), Coord(<<920, 4547>>)),
      Feature(JInt(7), Txt("Via C"), Coord(<<921, 4548>>)),
      Feature(Missing, Txt("Via A"), Coord(<<919, 4546>>)),
      Feature(JInt(7), Missing, Coord(<<919, 4546>>)),
      Feature(JInt(7), Txt("Via B"), Missing) }

SeqsUpTo(S, n) == UNION {[1..k -> S] : k \in 0..n}

MetaContents == {Absent, Malformed} \cup {Json(b) : b \in SeqsUpTo(FeaturePool, MaxStations)}
YearContents == {Absent, Malformed} \cup {Json(b) : b \in SeqsUpTo(RecordPool, MaxRecords)}

\* the yearly files of an instance sit at the two ends of the loop's range
Disks ==
    { [y \in Years |-> IF y = FirstYear THEN a ELSE IF y = LastYear THEN b ELSE Absent] :
        a \in YearContents, b \in YearContents }

RecordCount(files) ==
    LET n(y) == Len(files[y].body)
    IN  n(FirstYear) + n(LastYear)

----------------------------------------------------------------------------
(* State machine *)

NoCache == [full |-> FALSE, rows |-> <<>>]
Cached(rows) == [full |-> TRUE, rows |-> rows]
Unbound == [bound |-> FALSE, rows |-> <<>>]
Bound(rows) == [bound |-> TRUE, rows |-> rows]

UiInit ==
    /\ selected_year = LastYear
    /\ selected_gas = None /\ gas_comp = None /\ staz_focus = None /\ gas_focus = None
    /\ monthly_trend = <<>> /\ ranking = <<>> /\ monthly_focus = <<>>
    /\ trendView = "none" /\ rankView = "none" /\ focusView = "none"

\* a new session: the widgets at their defaults, nothing drawn yet
UiReset ==
    /\ selected_year' = LastYear
    /\ selected_gas' = None /\ gas_comp' = None /\ staz_focus' = None /\ gas_focus' = None
    /\ monthly_trend' = <<>> /\ ranking' = <<>> /\ monthly_focus' = <<>>
    /\ trendView' = "none" /\ rankView' = "none" /\ focusView' = "none"

Init ==
    /\ metaFile \in MetaContents
    /\ yearFiles \in {d \in Disks : RecordCount(d) <= MaxRecords}
    /\ cache = NoCache
    /\ df_final = Unbound
    /\ pc = "start"
    /\ error = ""
    /\ reads = {}
    /\ synced = FALSE
    /\ UiInit

\* mutant of CacheHit: the decorator is missing, every call runs the body
CacheHitNever(c) == FALSE

\* line 29: st.cache_data serves every call after the first that returned
CacheHit(c) == c.full

\* a script run starts: line 61, df_final = load_environmental_data()
Load ==
    /\ IF CacheHit(cache)
       THEN /\ df_final' = Bound(cache.rows)
            /\ pc' = "loaded"
            /\ error' = ""
            /\ reads' = {}
            /\ UNCHANGED <<cache, synced>>
       ELSE LET res == load_environmental_data(metaFile, yearFiles)
            IN  /\ reads' = res.reads
                /\ synced' = TRUE
                /\ error' = res.err
                /\ IF res.ok
                   THEN /\ cache' = Cached(res.rows)
                        /\ df_final' = Bound(res.rows)
                        /\ pc' = "loaded"
                   ELSE /\ cache' = cache
                        /\ df_final' = Unbound
                        /\ pc' = "failed"
    /\ monthly_trend' = <<>> /\ ranking' = <<>> /\ monthly_focus' = <<>>
    /\ trendView' = "none" /\ rankView' = "none" /\ focusView' = "none"
    /\ UNCHANGED <<metaFile, yearFiles, selected_year, selected_gas, gas_comp,
                   staz_focus, gas_focus>>

\* slider positions tried: the ends of the range and every year the pool has data for
YearChoices ==
    {FirstYear, LastYear} \cup {ParseDate(r.data).y : r \in {q \in RecordPool : ParseDate(q.data).ok}}

\* the rest of the script run, lines 101-145, with the widgets at any of their options
Render ==
    /\ pc = "loaded"
    /\ \E year \in YearChoices :
       \E gas \in Options(available_gas(df_final.rows, year)) :
       \E comp \in Options(available_gas(df_final.rows, year)) :
          /\ selected_year' = year
          /\ selected_gas' = gas
          /\ monthly_trend' = monthly_trendOf(df_final.rows, year, gas)
          /\ trendView' = "chart"
          /\ gas_comp' = comp
          /\ ranking' = rankingOf(df_final.rows, comp)
          /\ rankView' = "chart"
          /\ IF ~NomeSortable(df_final.rows)
             THEN /\ pc' = "failed"
                  /\ error' = "TypeError"
                  /\ UNCHANGED <<staz_focus, gas_focus, monthly_focus, focusView>>
             ELSE \E staz \in NomeOptions(df_final.rows) :
                  \E focus \in GasOptions(df_final.rows, staz) :
                     /\ staz_focus' = staz
                     /\ gas_focus' = focus
                     /\ monthly_focus' =
                            GroupByMese(data_focus(df_final.rows, staz, focus, year))
                     /\ focusView' = FocusView(monthly_focus')
                     /\ pc' = "rendered"
                     /\ error' = ""
    /\ UNCHANGED <<metaFile, yearFiles, cache, df_final, reads, synced>>

\* a yearly file disappears from the base directory
RemoveYear(year) ==
    /\ yearFiles[year] # Absent
    /\ yearFiles' = [yearFiles EXCEPT ![year] = Absent]
    /\ synced' = FALSE
    /\ UNCHANGED <<metaFile, cache, df_final, pc, error, reads, uiVars>>

\* the metadata file disappears from the base directory
RemoveMeta ==
    /\ metaFile # Absent
    /\ metaFile' = Absent
    /\ synced' = FALSE
    /\ UNCHANGED <<yearFiles, cache, df_final, pc, error, reads, uiVars>>

\* the hosting process is restarted: the cache and the session are gone
Restart ==
    /\ pc # "start"
    /\ cache' = NoCache
    /\ df_final' = Unbound
    /\ pc' = "start"
    /\ error' = ""
    /\ reads' = {}
    /\ synced' = FALSE
    /\ UiReset
    /\ UNCHANGED <<metaFile, yearFiles>>

Next ==
    \/ Load
    \/ \E year \in Years : RemoveYear(year)
    \/ RemoveMeta
    \/ Restart

Spec == Init /\ [][Next]_vars

NextUI ==
    \/ Load
    \/ Render

SpecUI == Init /\ [][NextUI]_vars

----------------------------------------------------------------------------
(* What the claims speak of *)

Features == metaFile.body
\* the records held by the yearly files that are present and parse, in year order
RECURSIVE RecordsFrom(_)
RecordsFrom(year) ==
    IF year > LastYear THEN <<>> ELSE yearFiles[year].body \o RecordsFrom(year + 1)
Records == RecordsFrom(FirstYear)
Rows == df_final.rows

\* the conditions the specification calls fatal, read off the files
FatalCondition ==
    \/ metaFile.st = "absent"
    \/ metaFile.st = "malformed"
    \/ \E y \in Years : yearFiles[y].st = "malformed"
    \/ \E i \in DOMAIN Features :
          Missing \in {Features[i].id_amat, Features[i].nome, Features[i].coordinates}

DatesParse == \A i \in DOMAIN Records : ParseDate(Records[i].data).ok

\* sources with nothing fatal in them, at least one station and one measurement
SoundSources == ~FatalCondition /\ Features # <<>> /\ Records # <<>>

\* the station ids as the join sees them
StationKeys == df_meta(stations_list(Features))
UniqueStationKeys ==
    \A i, j \in DOMAIN StationKeys : StationKeys[i].id = StationKeys[j].id => i = j

\* the number an id denotes, in tenths; -1 when it denotes none
IdNumber(x) == IF ToNumeric(x) = NaN THEN -1 ELSE ToNumeric(x).v
SameStation(a, b) == IdNumber(a) >= 0 /\ IdNumber(a) = IdNumber(b)

NonNumeric(x) == x.t = "str" /\ \E i \in DOMAIN x.v : ~IsDigit(x.v[i]) /\ x.v[i] # "."

RECURSIVE SumOver(_, _)
SumOver(rows, S) ==
    IF S = {} THEN 0
    ELSE LET i == CHOOSE k \in S : TRUE
         IN  rows[i].valore.v + SumOver(rows, S \ {i})

\* the mean of the rows at the indices in S, missing values left out
MeanExcluding(rows, S) ==
    LET valid == {i \in S : rows[i].valore # NaN}
    IN  IF valid = {} THEN NaN
        ELSE [t |-> "mean", v |-> <<SumOver(rows, valid), Cardinality(valid)>>]

----------------------------------------------------------------------------
(* Claims *)

\* C1 (as stated): whenever the body has run on sound sources with parseable dates,
\* it returns a table with exactly as many rows as the present yearly files hold records.
C1_Completeness ==
    (synced /\ SoundSources /\ DatesParse)
        => (df_final.bound /\ Len(Rows) = RecordCount(yearFiles))

\* C2 (as stated): in the returned table every row's stazione_id matches exactly one
\* station id, whose nome and coord the row carries, or matches none and the row carries
\* nulls; and no measurement row is dropped.
C2_JoinSafety ==
    (synced /\ df_final.bound) =>
        /\ Len(Rows) >= RecordCount(yearFiles)
        /\ \A j \in DOMAIN Rows :
              LET hits == {i \in DOMAIN StationKeys : StationKeys[i].id = Rows[j].stazione_id}
              IN  \/ /\ hits = {}
                     /\ Rows[j].nome = NaN /\ Rows[j].coord = NaN
                  \/ /\ Cardinality(hits) = 1
                     /\ \A i \in hits : /\ Rows[j].nome = StationKeys[i].nome
                                        /\ Rows[j].coord = StationKeys[i].coord

\* C3: the first call that returns fills the cache with the table it returns; every
\* later call of the process returns the cached content, opens no file and leaves the
\* cache as it is, whatever the files on disk have become.
C3_Memoization ==
    [][Load =>
        /\ (~cache.full /\ pc' = "loaded") => (cache' = Cached(df_final'.rows) /\ df_final'.bound)
        /\ cache.full => (df_final' = Bound(cache.rows) /\ cache' = cache /\ reads' = {}
                          /\ pc' = "loaded")]_vars

\* C3 witness: a call served from the cache after the metadata file has gone
C3_Witness ==
    /\ pc = "loaded" /\ reads = {} /\ cache.full /\ df_final = Bound(cache.rows)
    /\ ~synced /\ metaFile = Absent

\* C4 (as stated): with a table loaded from stations with distinct ids, removing any one
\* present yearly file makes a fresh load return, with exactly that file's records fewer.
C4_MissingYear ==
    (synced /\ df_final.bound /\ UniqueStationKeys) =>
        \A y \in PresentYears(yearFiles) :
            LET after == load_environmental_data(metaFile, [yearFiles EXCEPT ![y] = Absent])
            IN  after.ok /\ Len(after.rows) = Len(Rows) - Len(yearFiles[y].body)

\* C5: text that is no number never makes the load fail; its row is kept with valore
\* missing; and every mean drawn (monthly trend, station ranking, station detail) is the
\* mean of the non-missing values of its group, NaN when the group has none.
C5_ValueCoercion ==
    /\ (synced /\ SoundSources /\ DatesParse) => df_final.bound
    /\ (synced /\ df_final.bound) =>
          /\ Len(Rows) >= Len(Records)
          /\ Len(Rows) = Len(Records) =>
                \A i \in DOMAIN Records : NonNumeric(Records[i].valore) => Rows[i].valore = NaN
    /\ trendView = "chart" =>
          \A k \in DOMAIN monthly_trend :
              monthly_trend[k].valore =
                  MeanExcluding(Rows, {i \in DOMAIN Rows :
                      /\ Rows[i].anno = selected_year
                      /\ Rows[i].inquinante = selected_gas
                      /\ Rows[i].mese = monthly_trend[k].mese})
    /\ rankView = "chart" =>
          \A k \in DOMAIN ranking :
              ranking[k].valore =
                  MeanExcluding(Rows, {i \in DOMAIN Rows :
                      /\ Rows[i].inquinante = gas_comp
                      /\ Rows[i].nome = ranking[k].nome})
    /\ focusView = "chart" =>
          \A k \in DOMAIN monthly_focus :
              monthly_focus[k].valore =
                  MeanExcluding(Rows, {i \in DOMAIN Rows :
                      /\ Rows[i].nome = staz_focus
                      /\ Rows[i].inquinante = gas_focus
                      /\ Rows[i].anno = selected_year
                      /\ Rows[i].mese = monthly_focus[k].mese})

\* C5 witness: a drawn monthly mean over a numeric and a non-numeric record, and a
\* drawn station detail whose only record is non-numeric
C5_Witness ==
    /\ pc = "rendered"
    /\ \E i \in DOMAIN Records : NonNumeric(Records[i].valore)
    /\ \E k \in DOMAIN monthly_trend :
          /\ monthly_trend[k].valore # NaN
          /\ \E i \in DOMAIN Rows :
                /\ Rows[i].anno = selected_year /\ Rows[i].inquinante = selected_gas
                /\ Rows[i].mese = monthly_trend[k].mese /\ Rows[i].valore = NaN
    /\ \E k \in DOMAIN monthly_focus : monthly_focus[k].valore = NaN

\* C6 (as stated): a date that cannot be parsed leaves the load complete, with every
\* record in the table.
C6_DateCoercion ==
    (synced /\ SoundSources /\ ~DatesParse)
        => (pc = "loaded" /\ df_final.bound /\ Len(Rows) >= RecordCount(yearFiles))

\* C7: after a call that ran the body on files with a fatal condition, the run has
\* raised, df_final is unbound and nothing is cached.
C7_FatalErrors ==
    (synced /\ FatalCondition) =>
        /\ pc = "failed"
        /\ error \in {"FileNotFoundError", "JSONDecodeError", "KeyError"}
        /\ df_final = Unbound
        /\ cache = NoCache

\* C7 witness: a failed run over a sound metadata file, a yearly file with records and
\* a later yearly file that is malformed
C7_Witness ==
    /\ synced /\ pc = "failed"
    /\ metaFile.st = "json" /\ Features # <<>> /\ ~LacksKey(Features)
    /\ yearFiles[FirstYear].st = "json" /\ yearFiles[FirstYear].body # <<>>
    /\ yearFiles[LastYear] = Malformed

\* C8 (as stated): a measurement whose station id denotes the same number as a
\* station's id is joined with that station.
C8_CanonicalId ==
    (synced /\ df_final.bound) =>
        \A i \in DOMAIN Records : \A k \in DOMAIN Features :
            SameStation(Records[i].stazione_id, Features[k].id_amat) =>
                \E j \in DOMAIN Rows :
                    /\ Rows[j].nome = Features[k].nome
                    /\ Rows[j].coord = Features[k].coordinates
                    /\ Rows[j].inquinante = Records[i].inquinante
                    /\ Rows[j].valore = ToNumeric(Records[i].valore)

\* C9 (as stated): a view without rows is answered with the warning, never with a chart.
C9_EmptySelection ==
    /\ (trendView # "none" /\ monthly_trend = <<>>) => trendView = "warning"
    /\ (rankView # "none" /\ ranking = <<>>) => rankView = "warning"
    /\ (focusView # "none" /\ monthly_focus = <<>>) => focusView = "warning"

====
